---- MODULE Spec2Model ----
(***************************************************************************)
(* MatrixChannel (src/src/channels/matrix.ts): the connection flag, the    *)
(* outgoing queue with its flush loop, the sync wait of connect() and the  *)
(* RoomEvent.Timeline handler.                                             *)
(*                                                                         *)
(* JavaScript runs every handler to completion up to its next await, so    *)
(* one action is one synchronous run: a call up to its first await, or the *)
(* continuation of an await.                                               *)
(***************************************************************************)
EXTENDS Integers, Sequences, FiniteSets, TLC

\* ---- bounds of the model
MaxMsgs == 2        \* sendMessage calls made by the rest of the system
MaxFails == 1       \* transmissions the transport rejects
MaxConnects == 2    \* connect() calls
MaxEvents == 2      \* timeline events the transport delivers
MaxInboundConnects == 1   \* connect() calls while timeline events are followed
MaxTyping == 2      \* setTyping calls

\* ---- values
Rooms == {"!A", "!B"}
NoRoom == "undefined"                \* room === undefined (line 94)
SelfId == "@bot:hs"
Senders == {SelfId, "@alice:hs"}
EventTypes == {"m.room.message", "m.room.member"}
SyncStates == {"PREPARED", "ERROR"}
ConnectIds == 1..MaxConnects
Direct == 0                          \* owner of a transmission awaited by an outside caller

\* process.env as connect() reads it (lines 39-42, 57-59)
Configs ==
    [homeserver : BOOLEAN, accessToken : BOOLEAN, userpass : BOOLEAN,
     envUserId : {"", SelfId}]

VARIABLES
    connected,        \* this.connected
    userId,           \* this.userId
    client,           \* this.client: the connect() call that created it, 0 = undefined
    outgoingQueue,    \* this.outgoingQueue
    conns,            \* per connect() call: its position and its client's listeners
    flushPc,          \* per flushOutgoingQueue() invocation (one per PREPARED signal)
    disconnectCall,   \* how the latest disconnect() since the last connect() call ended
    typingCalls,      \* every setTyping call and where it stands
    inflight,         \* client.sendMessage promises not yet settled
    calls,            \* the { jid, text } of every sendMessage call made from outside
    callState,        \* where the latest sendMessage invocation for each text stands
    txLog,            \* every client.sendMessage call, in order
    delivered,        \* every resolved client.sendMessage, in order
    failCount,        \* number of rejected client.sendMessage calls
    offSet,           \* texts whose sendMessage call found the adapter not connected
    qOrder,           \* items in the order they first entered the queue
    events,           \* every timeline event delivered to the handler
    metaLog,          \* opts.onChatMetadata calls (index into events)
    msgLog            \* opts.onMessage calls (index into events)

lifeVars == <<connected, userId, client, conns, flushPc, disconnectCall>>
outVars == <<outgoingQueue, inflight, calls, callState, txLog, delivered,
             failCount, offSet, qOrder>>
inVars == <<events, metaLog, msgLog>>
vars == <<connected, userId, client, outgoingQueue, conns, flushPc, inflight,
          calls, callState, txLog, delivered, failCount, offSet, qOrder,
          events, metaLog, msgLog, disconnectCall, typingCalls>>

Range(s) == {s[i] : i \in 1..Len(s)}

NoConn ==
    [pc |-> "none", creds |-> FALSE, login |-> FALSE, handlers |-> FALSE,
     once |-> "unset", timer |-> "unset", started |-> FALSE]

Init ==
    /\ connected = FALSE
    /\ userId = ""
    /\ client = 0
    /\ outgoingQueue = <<>>
    /\ conns = [k \in ConnectIds |-> NoConn]
    /\ flushPc = [k \in ConnectIds |-> "idle"]
    /\ disconnectCall = "none"
    /\ typingCalls = <<>>
    /\ inflight = {}
    /\ calls = <<>>
    /\ callState = <<>>
    /\ txLog = <<>>
    /\ delivered = <<>>
    /\ failCount = 0
    /\ offSet = {}
    /\ qOrder = <<>>
    /\ events = <<>>
    /\ metaLog = <<>>
    /\ msgLog = <<>>

\* ---------------------------------------------------------------------
\* Outbound: sendMessage and flushOutgoingQueue
\* ---------------------------------------------------------------------

\* mutant of push: the item is put at the head
pushFront(q, item) == <<item>> \o q

\* this.outgoingQueue.push({ jid, text })  (lines 161 and 175)
push(q, item) == Append(q, item)

\* mutant of notConnected: the connection flag is not consulted
notConnectedNever(conn) == FALSE

\* if (!this.connected)  (line 160)
notConnected(conn) == ~conn

\* sendMessage from its entry to its first await (lines 159-172): either the
\* item is queued and the call returns, or client.sendMessage is called.
sendMessageEnter(q, conn, item) ==
    IF notConnected(conn)
        THEN [queue |-> push(q, item), tx |-> FALSE]
        ELSE [queue |-> q, tx |-> TRUE]

\* mutant of catchSendError: the error is thrown again instead of queued
catchRethrow(q, item) == [queue |-> q, raised |-> TRUE]

\* mutant of catchSendError: the error is swallowed and the item dropped
catchDrop(q, item) == [queue |-> q, raised |-> FALSE]

\* catch (err) of sendMessage (lines 174-180): the item is queued and the
\* error is not thrown again.
catchSendError(q, item) == [queue |-> push(q, item), raised |-> FALSE]

\* mutant of flushGuard: the loop is never entered
flushGuardNever(q, conn) == FALSE

\* mutant of flushGuard: the connection flag is not part of the loop guard
flushGuardIgnoresConnection(q, conn) == Len(q) > 0

\* while (this.outgoingQueue.length > 0 && this.connected)  (line 218)
flushGuard(q, conn) == Len(q) > 0 /\ conn

\* mutant of shift: the item is taken from the tail
shiftLast(q) == [item |-> q[Len(q)], queue |-> SubSeq(q, 1, Len(q) - 1)]

\* const item = this.outgoingQueue.shift()!  (line 219)
shift(q) == [item |-> Head(q), queue |-> Tail(q)]

\* One evaluation of the loop of flushOutgoingQueue up to its await
\* (lines 218-221): the guard, the shift and the entry of sendMessage.
flushIteration(q, conn) ==
    IF flushGuard(q, conn)
        THEN LET s == shift(q)
                 r == sendMessageEnter(s.queue, conn, s.item)
             IN [queue |-> r.queue, tx |-> r.tx, item |-> s.item,
                 pc |-> IF r.tx THEN "await" ELSE "loop"]
        ELSE [queue |-> q, tx |-> FALSE, item |-> [jid |-> "", text |-> 0],
              pc |-> "done"]

\* history: the order in which texts first entered the queue
noteQueued(order, queued, item) ==
    IF queued /\ item \notin Range(order) THEN Append(order, item) ELSE order

\* The effect of one loop evaluation r == flushIteration(..) of flush f.
flushEffect(f, r, conn) ==
    /\ outgoingQueue' = r.queue
    /\ flushPc' = [flushPc EXCEPT ![f] = r.pc]
    /\ inflight' = IF r.tx THEN inflight \cup {[item |-> r.item, owner |-> f]}
                           ELSE inflight
    /\ txLog' = IF r.tx THEN Append(txLog, [text |-> r.item.text, conn |-> conn, drain |-> TRUE])
                        ELSE txLog
    /\ callState' = IF r.pc = "done" THEN callState
                    ELSE [callState EXCEPT ![r.item.text] =
                              IF r.tx THEN "awaiting" ELSE "returned"]
    /\ UNCHANGED <<calls, delivered, failCount, offSet, qOrder>>

\* sendMessage(roomId, text) called by the rest of the system (lines 159-172).
\* Every call carries a fresh text, numbered in the order of the calls.
SendMessage(jid) ==
    /\ Len(calls) < MaxMsgs
    /\ LET item == [jid |-> jid, text |-> Len(calls) + 1]
           r == sendMessageEnter(outgoingQueue, connected, item)
       IN /\ calls' = Append(calls, item)
          /\ outgoingQueue' = r.queue
          /\ inflight' = IF r.tx THEN inflight \cup {[item |-> item, owner |-> Direct]}
                                 ELSE inflight
          /\ txLog' = IF r.tx
                          THEN Append(txLog, [text |-> item.text, conn |-> connected,
                                             drain |-> FALSE])
                          ELSE txLog
          /\ callState' = Append(callState, IF r.tx THEN "awaiting" ELSE "returned")
          /\ offSet' = IF connected THEN offSet ELSE offSet \cup {item.text}
          /\ qOrder' = noteQueued(qOrder, item \in Range(r.queue), item)
    /\ UNCHANGED <<delivered, failCount>>
    /\ UNCHANGED lifeVars
    /\ UNCHANGED inVars
    /\ UNCHANGED typingCalls

\* The awaiting caller continues once sendMessage has settled: an outside
\* caller is done, a flush loop goes on to evaluate its guard again (the
\* catch of lines 222-224 swallows a rejection).
resume(x) ==
    IF x.owner = Direct THEN flushPc ELSE [flushPc EXCEPT ![x.owner] = "loop"]

\* client.sendMessage resolves (lines 169-173).
TxSuccess(x) ==
    /\ x \in inflight
    /\ inflight' = inflight \ {x}
    /\ delivered' = Append(delivered, x.item)
    /\ callState' = [callState EXCEPT ![x.item.text] = "returned"]
    /\ flushPc' = resume(x)
    /\ UNCHANGED <<outgoingQueue, calls, txLog, failCount, offSet, qOrder>>
    /\ UNCHANGED <<connected, userId, client, conns, disconnectCall>>
    /\ UNCHANGED inVars
    /\ UNCHANGED typingCalls

\* client.sendMessage rejects (lines 174-180).
TxFail(x) ==
    /\ x \in inflight
    /\ failCount < MaxFails
    /\ LET r == catchSendError(outgoingQueue, x.item)
       IN /\ outgoingQueue' = r.queue
          /\ callState' = [callState EXCEPT ![x.item.text] =
                               IF r.raised THEN "raised" ELSE "returned"]
          /\ qOrder' = noteQueued(qOrder, x.item \in Range(r.queue), x.item)
    /\ inflight' = inflight \ {x}
    /\ failCount' = failCount + 1
    /\ flushPc' = resume(x)
    /\ UNCHANGED <<calls, txLog, delivered, offSet>>
    /\ UNCHANGED <<connected, userId, client, conns, disconnectCall>>
    /\ UNCHANGED inVars
    /\ UNCHANGED typingCalls

\* flushOutgoingQueue continues after `await this.sendMessage(..)`
\* (lines 218-225).
FlushLoop(f) ==
    /\ flushPc[f] = "loop"
    /\ flushEffect(f, flushIteration(outgoingQueue, connected), connected)
    /\ UNCHANGED <<connected, userId, client, conns, disconnectCall>>
    /\ UNCHANGED inVars
    /\ UNCHANGED typingCalls

\* ---------------------------------------------------------------------
\* Typing indicator: setTyping
\* ---------------------------------------------------------------------

\* isTyping ? 30000 : 0  (line 199)
TypingTimeoutMs == 30000
typingTimeout(isTyping) == IF isTyping THEN TypingTimeoutMs ELSE 0

\* mutant of catchTypingError: the error is thrown again
catchTypingRethrow == "raised"

\* catch (err) of setTyping (lines 200-202): the error is logged, the call
\* returns normally.
catchTypingError == "returned"

\* setTyping from its entry to its await (lines 197-199). While this.client
\* is undefined the member access throws inside the try block.
setTypingEnter(cl) ==
    IF cl = 0 THEN [transport |-> "noClient", state |-> catchTypingError]
              ELSE [transport |-> "pending", state |-> "awaiting"]

\* setTyping(roomId, isTyping) called by the rest of the system.
SetTyping(roomId, isTyping) ==
    /\ Len(typingCalls) < MaxTyping
    /\ LET r == setTypingEnter(client)
       IN typingCalls' = Append(typingCalls,
              [isTyping |-> isTyping, timeoutMs |-> typingTimeout(isTyping),
               transport |-> r.transport, state |-> r.state])
    /\ UNCHANGED lifeVars
    /\ UNCHANGED outVars
    /\ UNCHANGED inVars

\* client.sendTyping resolves (line 199).
TypingOk(i) ==
    /\ i \in 1..Len(typingCalls)
    /\ typingCalls[i].transport = "pending"
    /\ typingCalls' = [typingCalls EXCEPT ![i].transport = "resolved",
                                           ![i].state = "returned"]
    /\ UNCHANGED lifeVars
    /\ UNCHANGED outVars
    /\ UNCHANGED inVars

\* client.sendTyping rejects (lines 200-202).
TypingFail(i) ==
    /\ i \in 1..Len(typingCalls)
    /\ typingCalls[i].transport = "pending"
    /\ typingCalls' = [typingCalls EXCEPT ![i].transport = "rejected",
                                           ![i].state = catchTypingError]
    /\ UNCHANGED lifeVars
    /\ UNCHANGED outVars
    /\ UNCHANGED inVars

\* ---------------------------------------------------------------------
\* Lifecycle: connect and disconnect
\* ---------------------------------------------------------------------

\* history: the call was given an access token or a username+password pair
hasCredentials(cfg) == cfg.accessToken \/ cfg.userpass

\* mutant of configOutcome: without credentials connect() goes on as if it
\* held a token
configOutcomeNoCheck(cfg) ==
    IF ~cfg.homeserver THEN "noHomeserver"
    ELSE IF cfg.userpass /\ ~cfg.accessToken THEN "login"
    ELSE "token"

\* The branch connect() takes on its configuration (lines 44-79).
configOutcome(cfg) ==
    IF ~cfg.homeserver THEN "noHomeserver"
    ELSE IF cfg.accessToken THEN "token"
    ELSE IF cfg.userpass THEN "login"
    ELSE "noCredentials"

\* Lines 82-155: the listeners are registered, the timeout is set, the
\* once-listener for ClientEvent.Sync is registered and the client started.
registerAndStart(c) ==
    [c EXCEPT !.pc = "syncwait", !.handlers = TRUE, !.once = "armed",
              !.timer = "armed", !.started = TRUE]

\* connect() from its entry to its first await (lines 38-79, then 82-155).
Connect(cfg) ==
    \E k \in ConnectIds :
        /\ conns[k].pc = "none"
        /\ \A j \in ConnectIds : j < k => conns[j].pc # "none"
        /\ LET o == configOutcome(cfg)
           IN /\ client' = IF o = "noHomeserver" THEN client ELSE k
              /\ userId' = IF o = "token" THEN cfg.envUserId ELSE userId
              /\ conns' = [conns EXCEPT ![k] =
                     LET c == [@ EXCEPT !.creds = hasCredentials(cfg)]
                     IN CASE o = "token" -> registerAndStart(c)
                          [] o = "login" -> [c EXCEPT !.pc = "login", !.login = TRUE]
                          [] OTHER -> [c EXCEPT !.pc = o]]
        /\ disconnectCall' = "none"
        /\ UNCHANGED <<connected, flushPc>>
        /\ UNCHANGED outVars
        /\ UNCHANGED inVars
        /\ UNCHANGED typingCalls

\* client.login resolves (lines 62-74, then 82-155).
LoginOk(k) ==
    /\ conns[k].pc = "login"
    /\ userId' = SelfId
    /\ client' = k
    /\ conns' = [conns EXCEPT ![k] = registerAndStart(@)]
    /\ UNCHANGED <<connected, flushPc, disconnectCall>>
    /\ UNCHANGED outVars
    /\ UNCHANGED inVars
    /\ UNCHANGED typingCalls

\* client.login rejects: connect() rejects (line 62).
LoginFail(k) ==
    /\ conns[k].pc = "login"
    /\ conns' = [conns EXCEPT ![k].pc = "failed"]
    /\ UNCHANGED <<connected, userId, client, flushPc, disconnectCall>>
    /\ UNCHANGED outVars
    /\ UNCHANGED inVars
    /\ UNCHANGED typingCalls

\* The once-listener of ClientEvent.Sync runs (lines 138-153).
SyncSignal(k, state) ==
    /\ conns[k].once = "armed"
    /\ conns' = [conns EXCEPT
           ![k].once = "fired",
           ![k].timer = IF @ = "armed" THEN "cleared" ELSE @,
           ![k].pc = IF @ # "syncwait" THEN @
                     ELSE IF state = "PREPARED" THEN "resolved" ELSE "failed"]
    /\ IF state = "PREPARED"
           THEN /\ connected' = TRUE
                /\ flushEffect(k, flushIteration(outgoingQueue, TRUE), TRUE)
           ELSE /\ UNCHANGED <<connected, flushPc>>
                /\ UNCHANGED outVars
    /\ UNCHANGED <<userId, client, disconnectCall>>
    /\ UNCHANGED inVars
    /\ UNCHANGED typingCalls

\* The 30 s timer of the sync wait fires (lines 134-136).
SyncTimeout(k) ==
    /\ conns[k].timer = "armed"
    /\ conns' = [conns EXCEPT ![k].timer = "fired",
                              ![k].pc = IF @ = "syncwait" THEN "failed" ELSE @]
    /\ UNCHANGED <<connected, userId, client, flushPc, disconnectCall>>
    /\ UNCHANGED outVars
    /\ UNCHANGED inVars
    /\ UNCHANGED typingCalls

\* mutant of stopClient: this.client.stopClient() without the optional
\* chaining, which throws while this.client is undefined
stopClientStrict(cl) == IF cl = 0 THEN "raised" ELSE "returned"

\* this.client?.stopClient()  (line 194): skipped while this.client is
\* undefined, and the SDK call does not throw.
stopClient(cl) == "returned"

\* disconnect() (lines 192-195). this.client?.stopClient() changes nothing
\* the adapter holds: the listeners stay registered and transmissions
\* already started still settle.
Disconnect ==
    /\ connected' = FALSE
    /\ disconnectCall' = stopClient(client)
    /\ UNCHANGED <<userId, client, conns, flushPc>>
    /\ UNCHANGED outVars
    /\ UNCHANGED inVars
    /\ UNCHANGED typingCalls

\* The configurations under which connect() reaches the sync wait without a
\* login round trip: the delivery path reads of the lifecycle only
\* this.connected and the start of a flush.
DeliveryConfigs ==
    {cfg \in Configs : configOutcome(cfg) = "token" /\ cfg.envUserId = SelfId}

\* The delivery path: sendMessage, the flush loop and the transport's
\* answers, under connect / sync signal / disconnect.
Next ==
    \/ \E cfg \in DeliveryConfigs : Connect(cfg)
    \/ \E k \in ConnectIds, state \in SyncStates : SyncSignal(k, state)
    \/ Disconnect
    \/ \E jid \in Rooms : SendMessage(jid)
    \/ \E x \in inflight : TxSuccess(x)
    \/ \E x \in inflight : TxFail(x)
    \/ \E f \in ConnectIds : FlushLoop(f)

Spec == Init /\ [][Next]_vars

\* ---------------------------------------------------------------------
\* Properties of the delivery path (checked under Spec)
\* ---------------------------------------------------------------------

\* number of entries of a sequence of items that carry text t
CountText(s, t) == Cardinality({i \in 1..Len(s) : s[i].text = t})

\* position of text t in qOrder (an item enters qOrder once), 0 when it
\* never entered the queue
QueuedAt(t) ==
    IF \E i \in 1..Len(qOrder) : qOrder[i].text = t
        THEN CHOOSE i \in 1..Len(qOrder) : qOrder[i].text = t
        ELSE 0

\* the client.sendMessage calls for texts whose sendMessage call found the
\* adapter not connected
offTx == SelectSeq(txLog, LAMBDA e : e.text \in offSet)

\* C1: as long as no transmission has failed, the messages handed to
\* sendMessage while the adapter was not connected are passed to
\* client.sendMessage each at most once and in the order of their sendMessage
\* calls: the i-th such transmission is that of the i-th such call.
C1_OrderOfQueuedSends ==
    failCount = 0 =>
        \A i \in 1..Len(offTx) :
            Cardinality({t \in offSet : t < offTx[i].text}) = i - 1

\* C1 witness: two messages were queued while not connected, and after the
\* sync completed both were transmitted successfully, the queue is empty.
C1_Witness ==
    /\ failCount = 0
    /\ offSet = {1, 2}
    /\ Len(offTx) = 2
    /\ Len(delivered) = 2
    /\ outgoingQueue = <<>>

\* every message handed to sendMessage is in exactly one place
Conserved ==
    \A t \in 1..Len(calls) :
        CountText(outgoingQueue, t)
          + Cardinality({x \in inflight : x.item.text = t})
          + CountText(delivered, t) = 1

\* a transmission started by the flush loop that fails puts its item at the
\* tail of the queue as it is at that moment
RequeuedAtTail ==
    \A x \in inflight :
        (x.owner # Direct /\ x \notin inflight' /\ failCount' = failCount + 1)
            => outgoingQueue' = Append(outgoingQueue, x.item)

\* C2: in every reachable state each message handed to sendMessage is exactly
\* one of: once in the outgoing queue, in flight in one transmission, or
\* successfully transmitted once; and a transmission that fails during a
\* flush appends its message to the tail of the queue.
C2_NoLossNoDuplicate == []Conserved /\ [][RequeuedAtTail]_vars

\* C2 witness: message 1 was drained by the flush loop, its transmission
\* failed, and it is back in the queue behind message 2.
C2_Witness ==
    /\ Len(outgoingQueue) = 2
    /\ outgoingQueue[1].text = 2
    /\ outgoingQueue[2].text = 1
    /\ \E i \in 1..Len(txLog) : txLog[i].text = 1 /\ txLog[i].drain

\* C3 (as claimed): of two messages for the same destination, the one queued
\* later is never successfully delivered before the one queued earlier.
C3_Claim_SameDestinationOrder ==
    \A j \in 1..Len(delivered) :
        \A a \in 1..Len(qOrder) :
            LET y == delivered[j]
                b == QueuedAt(y.text)
            IN (b # 0 /\ a < b /\ qOrder[a].jid = y.jid)
                   => \E i \in 1..(j - 1) : delivered[i] = qOrder[a]

\* C4: a transmission the flush loop starts for a queued message comes after
\* at least one transmission attempt of every message that entered the queue
\* before it.
C4_DrainedFromHead ==
    \A i \in 1..Len(txLog) :
        txLog[i].drain =>
            LET b == QueuedAt(txLog[i].text)
            IN \A a \in 1..(b - 1) :
                   \E j \in 1..(i - 1) : txLog[j].text = qOrder[a].text

\* C4 witness: a message for !A and then a message for !B entered the queue,
\* and the flush loop has started the transmission of the one for !B.
C4_Witness ==
    /\ Len(qOrder) = 2
    /\ qOrder[1].jid = "!A"
    /\ qOrder[2].jid = "!B"
    /\ \E i \in 1..Len(txLog) : txLog[i].drain /\ txLog[i].text = qOrder[2].text

\* C5: every client.sendMessage call, from a direct sendMessage or from the
\* flush loop, is made while this.connected is true.
C5_TransmitOnlyWhenConnected == \A i \in 1..Len(txLog) : txLog[i].conn

\* C5 witness: the flush loop and a direct sendMessage have both started a
\* transmission, and the adapter has since been disconnected.
C5_Witness ==
    /\ \E i \in 1..Len(txLog) : txLog[i].drain
    /\ \E i \in 1..Len(txLog) : ~txLog[i].drain
    /\ ~connected

\* the step is the entry of the sendMessage call for text t
CallEntered(t) == Len(calls) = t - 1 /\ Len(calls') = t

\* C6 as a step property
SendMessageContract ==
    /\ \A t \in 1..MaxMsgs :
           CallEntered(t) =>
               IF connected
                   THEN /\ outgoingQueue' = outgoingQueue
                        /\ inflight' = inflight \cup {[item |-> calls'[t], owner |-> Direct]}
                        /\ callState'[t] = "awaiting"
                   ELSE /\ outgoingQueue' = Append(outgoingQueue, calls'[t])
                        /\ inflight' = inflight
                        /\ txLog' = txLog
                        /\ callState'[t] = "returned"
    /\ \A t \in 1..Len(calls) :
           (callState[t] = "awaiting" /\ callState'[t] # "awaiting") =>
               /\ callState'[t] = "returned"
               /\ \/ outgoingQueue' = outgoingQueue /\ delivered' = Append(delivered, calls[t])
                  \/ outgoingQueue' = Append(outgoingQueue, calls[t]) /\ delivered' = delivered
    /\ \A t \in 1..Len(calls') : callState'[t] # "raised"

\* C6: sendMessage never raises to its caller. Called while not connected it
\* appends exactly its (jid, text) to the queue tail and starts no
\* transmission; called while connected it starts the transmission with the
\* queue unchanged, and when the transmission settles the call returns
\* normally, with the queue unchanged on success and with exactly its entry
\* appended to the tail on an error.
C6_SendNeverRaises == [][SendMessageContract]_vars

\* C6 witness: a sendMessage call made while connected (never drained by a
\* flush) had its transmission fail, returned normally, and its entry is the
\* tail of the queue.
C6_Witness ==
    \E t \in 1..Len(calls) :
        /\ t \notin offSet
        /\ callState[t] = "returned"
        /\ failCount > 0
        /\ Len(outgoingQueue) > 0
        /\ outgoingQueue[Len(outgoingQueue)] = calls[t]
        /\ \A i \in 1..Len(txLog) : txLog[i].text = t => ~txLog[i].drain

\* ---------------------------------------------------------------------
\* Inbound: the RoomEvent.Timeline handler
\* ---------------------------------------------------------------------

TimelineEvents == [room : Rooms \cup {NoRoom}, type : EventTypes, sender : Senders]

\* mutant of isOwnMessage: the sender is not compared
isOwnMessageNever(sender, uid) == FALSE

\* if (sender === this.userId) return  (line 99)
isOwnMessage(sender, uid) == sender = uid

\* mutant of ignoredUntilConnected: events of the initial sync are let through
ignoredNever(conn) == FALSE

\* if (!this.connected) return  (line 102)
ignoredUntilConnected(conn) == ~conn

\* mutant of isRegistered: the registry is not consulted
isRegisteredAlways(roomId, groups) == TRUE

\* if (groups[roomId])  (lines 114-115)
isRegistered(roomId, groups) == roomId \in groups

\* The callbacks one run of the handler makes (lines 93-129).
classify(ev, uid, conn, groups) ==
    IF ev.room = NoRoom THEN [meta |-> FALSE, msg |-> FALSE]
    ELSE IF ev.type # "m.room.message" THEN [meta |-> FALSE, msg |-> FALSE]
    ELSE IF isOwnMessage(ev.sender, uid) THEN [meta |-> FALSE, msg |-> FALSE]
    ELSE IF ignoredUntilConnected(conn) THEN [meta |-> FALSE, msg |-> FALSE]
    ELSE [meta |-> TRUE, msg |-> isRegistered(ev.room, groups)]

\* Client k emits RoomEvent.Timeline and the handler runs (lines 93-130);
\* groups is what opts.registeredGroups() returns to this run (line 114).
\* events records the delivery with what the handler read at that moment.
TimelineEvent(k, ev, groups) ==
    /\ conns[k].handlers
    /\ Len(events) < MaxEvents
    /\ LET c == classify(ev, userId, connected, groups)
           n == Len(events) + 1
       IN /\ events' = Append(events,
                 [room |-> ev.room, message |-> (ev.type = "m.room.message"),
                  own |-> (ev.sender = userId), connected |-> connected,
                  registered |-> (ev.room \in groups)])
          /\ metaLog' = IF c.meta THEN Append(metaLog, [ev |-> n, roomId |-> ev.room])
                                  ELSE metaLog
          /\ msgLog' = IF c.msg THEN Append(msgLog, [ev |-> n, chat_jid |-> ev.room])
                                ELSE msgLog
    /\ UNCHANGED lifeVars
    /\ UNCHANGED outVars
    /\ UNCHANGED typingCalls

\* connect() with an access token, MATRIX_USER_ID set or not.
TokenConfigs == {cfg \in Configs : configOutcome(cfg) = "token" /\ ~cfg.userpass}

\* The inbound path: timeline events under
\* connect / sync signal / disconnect.
NextInbound ==
    \/ \E cfg \in TokenConfigs : Connect(cfg) /\ conns[MaxInboundConnects].pc = "none"
    \/ \E k \in ConnectIds, state \in SyncStates : SyncSignal(k, state)
    \/ Disconnect
    \/ \E k \in ConnectIds, ev \in TimelineEvents, groups \in SUBSET Rooms :
           TimelineEvent(k, ev, groups)

SpecInbound == Init /\ [][NextInbound]_vars

\* The delivery path within one session: a single connect() call, so a
\* single flush loop.
NextSession ==
    \/ \E cfg \in DeliveryConfigs : Connect(cfg) /\ conns[1].pc = "none"
    \/ \E k \in ConnectIds, state \in SyncStates : SyncSignal(k, state)
    \/ Disconnect
    \/ \E jid \in Rooms : SendMessage(jid)
    \/ \E x \in inflight : TxSuccess(x)
    \/ \E x \in inflight : TxFail(x)
    \/ \E f \in ConnectIds : FlushLoop(f)

SpecSession == Init /\ [][NextSession]_vars

\* The lifecycle alone: every configuration, the login round trip, the sync
\* wait with its timeout, and disconnect.
NextLifecycle ==
    \/ \E cfg \in Configs : Connect(cfg)
    \/ \E k \in ConnectIds : LoginOk(k)
    \/ \E k \in ConnectIds : LoginFail(k)
    \/ \E k \in ConnectIds, state \in SyncStates : SyncSignal(k, state)
    \/ \E k \in ConnectIds : SyncTimeout(k)
    \/ Disconnect

SpecLifecycle == Init /\ [][NextLifecycle]_vars

\* The lifecycle together with the delivery path.
NextFull ==
    \/ \E cfg \in Configs : Connect(cfg)
    \/ \E k \in ConnectIds : LoginOk(k)
    \/ \E k \in ConnectIds : LoginFail(k)
    \/ \E k \in ConnectIds, state \in SyncStates : SyncSignal(k, state)
    \/ \E k \in ConnectIds : SyncTimeout(k)
    \/ Disconnect
    \/ \E jid \in Rooms : SendMessage(jid)
    \/ \E x \in inflight : TxSuccess(x)
    \/ \E x \in inflight : TxFail(x)
    \/ \E f \in ConnectIds : FlushLoop(f)

SpecFull == Init /\ [][NextFull]_vars

\* ---------------------------------------------------------------------
\* Properties of the inbound path (checked under SpecInbound)
\* ---------------------------------------------------------------------

\* number of onChatMetadata / onMessage calls made for delivery n
MetaCalls(n) == Cardinality({i \in 1..Len(metaLog) : metaLog[i].ev = n})
MsgCalls(n) == Cardinality({i \in 1..Len(msgLog) : msgLog[i].ev = n})

\* C7: a timeline event whose sender equals this.userId triggers neither
\* onChatMetadata nor onMessage, in any connection state and whether or not
\* its room is registered.
C7_OwnEventsSuppressed ==
    \A n \in 1..Len(events) :
        events[n].own => MetaCalls(n) = 0 /\ MsgCalls(n) = 0

\* C7 witness: a message event sent by the adapter's own user id, for a
\* registered room, was delivered while connected.
C7_Witness ==
    \E n \in 1..Len(events) :
        /\ events[n].own
        /\ events[n].message
        /\ events[n].connected
        /\ events[n].registered

\* C8: an event delivered to the handler while this.connected is false
\* triggers neither callback, then or at any later time.
C8_IgnoredUntilConnected ==
    \A n \in 1..Len(events) :
        ~events[n].connected => MetaCalls(n) = 0 /\ MsgCalls(n) = 0

\* C8 witness: a message event of another user for a registered room was
\* delivered while not connected, the adapter has become connected since,
\* and a later event was handled.
C8_Witness ==
    /\ Len(events) = 2
    /\ ~events[1].connected
    /\ events[1].message
    /\ ~events[1].own
    /\ events[1].registered
    /\ events[2].connected
    /\ connected

\* the handler went past its early returns for delivery n
Surfaced(n) ==
    /\ events[n].room # NoRoom
    /\ events[n].message
    /\ ~events[n].own
    /\ events[n].connected

\* C9: for every message event that is not the adapter's own and arrives
\* while connected, onChatMetadata is called exactly once, and onMessage is
\* called exactly once if the room is in what registeredGroups() returned to
\* that run of the handler and not at all otherwise; both for the room of
\* the event.
C9_MetadataAlwaysMessageIfRegistered ==
    \A n \in 1..Len(events) :
        Surfaced(n) =>
            /\ MetaCalls(n) = 1
            /\ MsgCalls(n) = IF events[n].registered THEN 1 ELSE 0
            /\ \A i \in 1..Len(metaLog) :
                   metaLog[i].ev = n => metaLog[i].roomId = events[n].room
            /\ \A i \in 1..Len(msgLog) :
                   msgLog[i].ev = n => msgLog[i].chat_jid = events[n].room

\* C9 witness: two events for the same room, the room registered between
\* them: metadata for both, the full message for the second only.
C9_Witness ==
    /\ Len(events) = 2
    /\ Surfaced(1)
    /\ Surfaced(2)
    /\ events[1].room = events[2].room
    /\ ~events[1].registered
    /\ events[2].registered
    /\ Len(metaLog) = 2
    /\ Len(msgLog) = 1

\* ---------------------------------------------------------------------
\* Properties of connect() (checked under SpecFull)
\* ---------------------------------------------------------------------

\* connect() call k was made without an access token and without a
\* username+password pair
NoCredentialsCall(k) == conns[k].pc # "none" /\ ~conns[k].creds

\* a call without credentials has ended in a configuration error and has
\* made no network call and registered no listener
FailedFast(k) ==
    /\ conns[k].pc \in {"noHomeserver", "noCredentials"}
    /\ ~conns[k].login
    /\ ~conns[k].started
    /\ ~conns[k].handlers
    /\ conns[k].once = "unset"
    /\ conns[k].timer = "unset"

\* the step in which call k is made leaves the connection flag, the user id
\* and the delivery state as they were
ConnectFrame(k) ==
    (conns[k].pc = "none" /\ conns'[k].pc # "none" /\ ~conns'[k].creds)
        => /\ connected' = connected
           /\ userId' = userId
           /\ outgoingQueue' = outgoingQueue
           /\ inflight' = inflight
           /\ flushPc' = flushPc

\* C10: connect() called with neither an access token nor a username+password
\* pair fails at once with a configuration error, calls neither login nor
\* startClient, registers no listener, and leaves the connection flag (so an
\* adapter that was not connected stays not connected) and the queue unchanged.
C10_NoCredentialsFailsFast ==
    /\ [](\A k \in ConnectIds : NoCredentialsCall(k) => FailedFast(k))
    /\ [][\A k \in ConnectIds : ConnectFrame(k)]_vars

\* C10 witness: with a message waiting in the queue, a connect() call with a
\* homeserver but no credentials has failed.
C10_Witness ==
    /\ \E k \in ConnectIds : conns[k].pc = "noCredentials"
    /\ Len(outgoingQueue) > 0
    /\ ~connected

\* ---------------------------------------------------------------------
\* Properties of one flush (checked under SpecSession: a single connect()
\* call, so a single flushOutgoingQueue() invocation)
\* ---------------------------------------------------------------------

\* number of client.sendMessage calls the flush loop made for text t
DrainCount(t) ==
    Cardinality({i \in 1..Len(txLog) : txLog[i].text = t /\ txLog[i].drain})

\* the queue was [(A,m1),(B,m2)] when the flush started, the flush
\* transmitted m1 and then m2, m1 failed and m2 succeeded
FailThenSucceed ==
    /\ Len(calls) = 2
    /\ calls[1].jid = "!A"
    /\ calls[2].jid = "!B"
    /\ offSet = {1, 2}
    /\ Len(txLog) >= 2
    /\ txLog[1].text = 1
    /\ txLog[2].text = 2
    /\ failCount = 1
    /\ Len(delivered) >= 1
    /\ delivered[1].text = 2

\* C11 (as claimed): in a flush over [(A,m1),(B,m2)] in which m1 fails and m2
\* succeeds, the flush attempts m1 once only, and when it has ended the queue
\* holds exactly [(A,m1)].
C11_Claim_FailedItemLeftForLaterFlush ==
    FailThenSucceed =>
        /\ DrainCount(1) <= 1
        /\ flushPc[1] = "done" => outgoingQueue = <<calls[1]>>

\* ---------------------------------------------------------------------
\* The delivery path under the scheduling the runtime guarantees
\* ---------------------------------------------------------------------

\* every client.sendMessage promise there can be
Transmissions ==
    [item : [jid : Rooms, text : 1..MaxMsgs], owner : {Direct} \cup ConnectIds]

\* The continuation of a settled await is run by the microtask queue, so a
\* flush loop that can go on does go on (lines 218-225).
FlushFairness == \A f \in ConnectIds : WF_vars(FlushLoop(f))

\* The transport is not made to fail: a transmission that stays pending
\* resolves.
TransportFairness == \A x \in Transmissions : WF_vars(TxSuccess(x))

\* Spec with the flush loop scheduled and the transport answering.
SpecDrain == Spec /\ FlushFairness /\ TransportFairness

\* the client.sendMessage calls made by the flush loop, in order
drainTx == SelectSeq(txLog, LAMBDA e : e.drain)

\* the step that makes the adapter connected with a non-empty queue starts a
\* flush (its first transmission is that of the head of the queue) and, in
\* the same run, resolves the connect() call that was waiting for the sync
BecomesConnectedStartsFlush ==
    (~connected /\ connected' /\ outgoingQueue # <<>>) =>
        \E k \in ConnectIds :
            /\ flushPc[k] = "idle"
            /\ flushPc'[k] = "await"
            /\ outgoingQueue' = Tail(outgoingQueue)
            /\ inflight' = inflight \cup {[item |-> Head(outgoingQueue), owner |-> k]}
            /\ conns[k].pc = "syncwait" => conns'[k].pc = "resolved"

\* as long as no transmission has failed, the flush transmissions are those
\* of the queued messages, one each, in the order they were queued
DrainedInQueueOrder ==
    failCount = 0 =>
        /\ Len(drainTx) <= Len(qOrder)
        /\ \A i \in 1..Len(drainTx) : drainTx[i].text = qOrder[i].text

\* every queued message has been transmitted by a flush and the queue is empty
AllDrained == outgoingQueue = <<>> /\ Len(drainTx) = Len(qOrder)

\* C12: the step in which the adapter becomes connected with a non-empty
\* queue starts a flush and resolves connect() without waiting for it; and
\* from a connected state with a non-empty queue, unless the adapter is
\* disconnected or a transmission fails, the queue eventually is empty with
\* every queued message transmitted exactly once, in queue order.
C12_FlushOnConnectDrainsQueue ==
    /\ [][BecomesConnectedStartsFlush]_vars
    /\ []DrainedInQueueOrder
    /\ (connected /\ outgoingQueue # <<>>) ~> (AllDrained \/ ~connected \/ failCount > 0)

\* C12 witness: (A,m1) and (B,m2) were queued while not connected, connect()
\* has resolved, the flush has transmitted m1 then m2 and has ended with the
\* queue empty, the adapter still connected.
C12_Witness ==
    /\ Len(qOrder) = 2
    /\ qOrder[1].jid = "!A"
    /\ qOrder[2].jid = "!B"
    /\ failCount = 0
    /\ connected
    /\ conns[1].pc = "resolved"
    /\ flushPc[1] = "done"
    /\ Len(drainTx) = 2
    /\ drainTx[1].text = qOrder[1].text
    /\ AllDrained

\* ---------------------------------------------------------------------
\* Properties of the lifecycle
\* ---------------------------------------------------------------------

\* disconnect() has been called and connect() has not been called since
AfterDisconnect == disconnectCall # "none"

\* C13 (as claimed): from a disconnect() call until the next connect() call
\* the adapter is not connected, whatever signals the transport delivers in
\* between, so that isConnected() is false and sendMessage queues.
C13_Claim_StaysDisconnected == AfterDisconnect => ~connected

\* the 30 s timer of connect() call k fired before any sync-state signal
TimedOut(k) == conns[k].timer = "fired"

\* the first sync-state signal of call k came before the timeout and was not
\* PREPARED
FirstSignalNotPrepared(k) ==
    conns[k].once = "fired" /\ conns[k].timer = "cleared" /\ conns[k].pc = "failed"

\* C14 (as claimed): the adapter is connected only by a connect() call that
\* resolved on a PREPARED signal received before the timeout; a call whose
\* timeout fired first, or whose first sync-state signal was not PREPARED, has
\* failed and has started no flush, also when a PREPARED signal arrives later.
C14_Claim_ConnectedOnlyByTimelyPrepared ==
    /\ \A k \in ConnectIds :
           (TimedOut(k) \/ FirstSignalNotPrepared(k)) =>
               conns[k].pc = "failed" /\ flushPc[k] = "idle"
    /\ connected => \E k \in ConnectIds : conns[k].pc = "resolved"

\* ---------------------------------------------------------------------
\* Properties of concurrent flushes and of disconnect()
\* ---------------------------------------------------------------------

\* the flushOutgoingQueue() invocations that have not returned
ActiveFlushes == {k \in ConnectIds : flushPc[k] \in {"await", "loop"}}

\* C15 (as claimed): at most one flush loop is active at any time; a flush
\* triggered while another is still running does not become a second loop
\* draining the queue.
C15_Claim_SingleFlushLoop == Cardinality(ActiveFlushes) <= 1

\* queue q is an initial part of queue r
IsPrefix(q, r) == Len(q) <= Len(r) /\ SubSeq(r, 1, Len(q)) = q

\* a step that begins and ends with the adapter not connected takes nothing
\* out of the queue and starts no transmission, and a flush loop that
\* continues in it returns, leaving the queue as it is
NoDrainWhileDisconnected ==
    (~connected /\ ~connected') =>
        /\ IsPrefix(outgoingQueue, outgoingQueue')
        /\ txLog' = txLog
        /\ inflight' \subseteq inflight
        /\ \A f \in ConnectIds :
               (flushPc[f] = "loop" /\ flushPc'[f] # "loop") =>
                   flushPc'[f] = "done" /\ outgoingQueue' = outgoingQueue

\* a flush that has returned awaits no transmission
ReturnedFlushAwaitsNothing ==
    \A f \in ConnectIds :
        flushPc[f] = "done" => \A x \in inflight : x.owner # f

\* C16: whenever disconnect() is called during a flush, an item the flush has
\* shifted is in exactly one place (in flight, transmitted, or back in the
\* queue), also after its transmission has settled and the flush has
\* returned; and a flush loop that continues while the adapter is not
\* connected starts no transmission, removes nothing from the queue and
\* returns.
C16_DisconnectDuringFlushLosesNothing ==
    /\ []Conserved
    /\ []ReturnedFlushAwaitsNothing
    /\ [][NoDrainWhileDisconnected]_vars

\* C16 witness: the flush shifted m1 with m2 behind it, disconnect() was
\* called before the loop continued, the transmission of m1 failed, and the
\* flush has returned with m2 and m1 in the queue.
C16_Witness ==
    /\ ~connected
    /\ disconnectCall = "returned"
    /\ \E f \in ConnectIds : flushPc[f] = "done"
    /\ ActiveFlushes = {}
    /\ failCount = 1
    /\ DrainCount(1) = 1
    /\ Len(outgoingQueue) = 2
    /\ outgoingQueue[2].text = 1
    /\ inflight = {}

\* the step is a disconnect() call that changes the state: the first call
\* since connect(), or a call made while the adapter is connected
DisconnectStep ==
    /\ disconnectCall' # "none"
    /\ disconnectCall = "none" \/ (connected /\ ~connected')

\* a disconnect() call leaves the adapter not connected, returns normally,
\* and leaves the queue, the pending transmissions, the flush loops and the
\* connect() calls as they were
DisconnectContract ==
    DisconnectStep =>
        /\ ~connected'
        /\ disconnectCall' = "returned"
        /\ UNCHANGED <<outgoingQueue, inflight, flushPc, conns, userId, client>>
        /\ UNCHANGED <<calls, callState, txLog, delivered, failCount>>

\* right after a disconnect() call, another one changes nothing
SecondDisconnectChangesNothing ==
    (disconnectCall = "returned" /\ ~connected) => ~ENABLED (Disconnect /\ vars' # vars)

\* C17: disconnect() called in any state (before connect(), during the sync
\* wait, while connected, during a flush, or again) leaves the adapter not
\* connected, does not raise, and leaves the outgoing queue unchanged; and a
\* second call changes nothing.
C17_DisconnectIdempotentAndSafe ==
    /\ [][DisconnectContract]_vars
    /\ [](disconnectCall # "raised")
    /\ []SecondDisconnectChangesNothing

\* C17 witness: disconnect() was called before any connect() call, while a
\* message was waiting in the queue.
C17_Witness ==
    /\ client = 0
    /\ \A k \in ConnectIds : conns[k].pc = "none"
    /\ disconnectCall = "returned"
    /\ ~connected
    /\ Len(outgoingQueue) = 1

\* ---------------------------------------------------------------------
\* Termination of a flush and retry of failed sends
\* ---------------------------------------------------------------------

\* the transmission of message t keeps failing: the flush is the only one to
\* have transmitted anything, it has transmitted only t, and every failure
\* the transport can produce has been spent on it
KeepsFailing(t) ==
    /\ delivered = <<>>
    /\ failCount = MaxFails
    /\ \A i \in 1..Len(txLog) : txLog[i].text = t /\ txLog[i].drain

QueuedByFailure(t) ==
    /\ CountText(outgoingQueue, t) = 1
    /\ \E i \in 1..Len(txLog) : txLog[i].text = t

\* C19 (as claimed): a message that is in the queue because its transmission
\* failed while the adapter was connected is eventually taken from the queue
\* and transmitted again, unless the adapter is disconnected; whether the
\* failed transmission was started by a flush or by a direct sendMessage.
C19_Claim_FailedSendRetried ==
    \A t \in 1..MaxMsgs :
        (QueuedByFailure(t) /\ connected) ~> (~connected \/ ~QueuedByFailure(t))

\* ---------------------------------------------------------------------
\* Properties of setTyping (checked under SpecTyping)
\* ---------------------------------------------------------------------

\* setTyping calls and the transport's answers to them, in every state of
\* the adapter's lifecycle: before connect(), during the sync wait, connected
\* with a flush awaiting a transmission, disconnected; with sendMessage calls
\* filling the queue.
NextTyping ==
    \/ \E cfg \in DeliveryConfigs : Connect(cfg) /\ conns[1].pc = "none"
    \/ \E k \in ConnectIds, state \in SyncStates : SyncSignal(k, state)
    \/ Disconnect
    \/ \E jid \in Rooms : SendMessage(jid)
    \/ \E roomId \in Rooms, isTyping \in BOOLEAN : SetTyping(roomId, isTyping)
    \/ \E i \in 1..MaxTyping : TypingOk(i)
    \/ \E i \in 1..MaxTyping : TypingFail(i)

SpecTyping == Init /\ [][NextTyping]_vars

\* a step of a setTyping call (its entry, or its transport call settling)
\* leaves the connection flag, the queue, the pending transmissions and the
\* flush loops as they are
TypingFrame ==
    typingCalls' # typingCalls =>
        /\ connected' = connected
        /\ outgoingQueue' = outgoingQueue
        /\ inflight' = inflight
        /\ flushPc' = flushPc
        /\ txLog' = txLog

\* no setTyping call has raised: a call awaits its transport call, and has
\* returned normally once that has settled or could not be made
TypingNeverRaises ==
    \A i \in 1..Len(typingCalls) :
        typingCalls[i].state =
            IF typingCalls[i].transport = "pending" THEN "awaiting" ELSE "returned"

\* C20: setTyping never raises to its caller, whether the transport call
\* succeeds, fails, or cannot be made because connect() was never called; and
\* no step of a setTyping call changes the outgoing queue or the connection
\* flag.
C20_SetTypingBestEffort ==
    /\ []TypingNeverRaises
    /\ [][TypingFrame]_vars

\* C20 witness: setTyping was called before connect() and returned; it was
\* called again, its transport call failed and it returned; the adapter is
\* connected and a message is waiting in the queue.
C20_Witness ==
    /\ Len(typingCalls) = 2
    /\ typingCalls[1].transport = "noClient"
    /\ typingCalls[1].state = "returned"
    /\ typingCalls[2].transport = "rejected"
    /\ typingCalls[2].state = "returned"
    /\ typingCalls[2].isTyping
    /\ connected
    /\ Len(outgoingQueue) > 0

====
